---- MODULE Spec2Model ----
(***************************************************************************)
(* A model of webrtc/video/full_stack_plot.py: the Data parser and its     *)
(* derived metrics, average_over_cycle, PlotConfig.plot (up to the length  *)
(* check), load_files and its cache, the directive interpreter             *)
(* _plot_config_from_args and the show_or_save_plots loop.                 *)
(*                                                                         *)
(* Representation.  Python lists are sequences, so Python index k is       *)
(* element k + 1.  Python's None is the integer None, which is outside     *)
(* every range of numbers the model uses.  Sample values are integers      *)
(* (float(value) of an integral cell); a quotient total / count of         *)
(* average_over_cycle is the exact rational, written as the integer        *)
(* numerator over the common denominator Den.  The dict samples is a       *)
(* function whose DOMAIN is the set of keys present.  Data objects live in *)
(* heap, and are referred to by their index there (object identity).       *)
(*                                                                         *)
(* Left out: argparse (the interpreter takes the ordered (key, values)     *)
(* list as it is), the drawing calls of plot after its length check, cells *)
(* that are not numbers, and negative offsets, caps and cycle lengths.     *)
(*                                                                         *)
(* Definitions named ...Buggy, ...Never, ...Zero, ...KeepMask and          *)
(* ...LoadFirst are faulty variants of the definition that follows them;   *)
(* the model does not use them.  They exist to show that a property fails  *)
(* when the code is changed that way.                                      *)
(***************************************************************************)
EXTENDS Integers, Sequences, FiniteSets, TLC

VARIABLES
    fs,            \* the files on disk: path -> file content (never written)
    heap,          \* the Data objects constructed so far, by instance id
    cache,         \* load_files.cache: path -> instance id
    parses,        \* path -> number of Data(path) constructor calls so far
    pc,            \* position of the run
    graph_num,     \* index of the chart group being interpreted
    loc,           \* locals of _plot_config_from_args for the current group
    args,          \* the directives of the current group consumed so far
    argv_pos,      \* number of directives of the run consumed so far
    plot_configs,  \* the PlotConfig list built by plot_configs_from_args
    plot_idx,      \* position of the loop of show_or_save_plots
    config,        \* the PlotConfig of the most recent PlotConfig.plot call
    lines,         \* the lines list of the most recent PlotConfig.plot call
    saved,         \* output file names passed to fig.savefig, in order
    shown,         \* plt.show() was reached
    error,         \* the exception that ended the call or the run
    values,        \* argument of average_over_cycle
    length,        \* argument of average_over_cycle
    result         \* return value of average_over_cycle

vars == <<fs, heap, cache, parses, pc, graph_num, loc, args, argv_pos, plot_configs,
          plot_idx, config, lines, saved, shown, error, values, length, result>>

---------------------------------------------------------------------------
(* Bounds of the model. *)

MaxL == 3          \* greatest declared sample count of a generated file
MaxLen == 4        \* greatest length of an average_over_cycle argument
MaxCycle == 3      \* greatest cycle length
MaxOffset == 4     \* greatest frame offset
MaxFrames == 4     \* greatest frame-count cap
MaxArgv == 5       \* greatest number of directives of one run
MaxArgs == 4       \* the same, where only the interpreter runs

---------------------------------------------------------------------------
(* Constants of the program. *)

None == -1000000

DROPPED == 0
INPUT_TIME == 1
SEND_TIME == 2
RECV_TIME == 3
ENCODED_FRAME_SIZE == 4
PSNR == 5
SSIM == 6
RENDER_TIME == 7
TOTAL_RAW_FIELDS == 8
SENDER_TIME == TOTAL_RAW_FIELDS + 0
RECEIVER_TIME == TOTAL_RAW_FIELDS + 1
END_TO_END == TOTAL_RAW_FIELDS + 2
RENDERED_DELTA == TOTAL_RAW_FIELDS + 3
FIELD_MASK == 255
HIDE_DROPPED == 256
RIGHT_Y_AXIS == 512

name_to_id ==
    [n \in {"dropped", "input_time_ms", "send_time_ms", "recv_time_ms",
            "encoded_frame_size", "psnr", "ssim", "render_time_ms",
            "sender_time", "receiver_time", "end_to_end", "rendered_delta"} |->
        CASE n = "dropped" -> DROPPED
          [] n = "input_time_ms" -> INPUT_TIME
          [] n = "send_time_ms" -> SEND_TIME
          [] n = "recv_time_ms" -> RECV_TIME
          [] n = "encoded_frame_size" -> ENCODED_FRAME_SIZE
          [] n = "psnr" -> PSNR
          [] n = "ssim" -> SSIM
          [] n = "render_time_ms" -> RENDER_TIME
          [] n = "sender_time" -> SENDER_TIME
          [] n = "receiver_time" -> RECEIVER_TIME
          [] n = "end_to_end" -> END_TO_END
          [] n = "rendered_delta" -> RENDERED_DELTA]

id_to_title ==
    [i \in 0..(TOTAL_RAW_FIELDS + 3) |->
        CASE i = DROPPED -> "dropped"
          [] i = INPUT_TIME -> "input time"
          [] i = SEND_TIME -> "send time"
          [] i = RECV_TIME -> "recv time"
          [] i = ENCODED_FRAME_SIZE -> "encoded frame size"
          [] i = PSNR -> "PSNR"
          [] i = SSIM -> "SSIM"
          [] i = RENDER_TIME -> "render time"
          [] i = SENDER_TIME -> "sender time"
          [] i = RECEIVER_TIME -> "receiver time"
          [] i = END_TO_END -> "end to end"
          [] i = RENDERED_DELTA -> "rendered delta"]

---------------------------------------------------------------------------
(* Python's operators on non-negative integers and on lists. *)

RECURSIVE BitAnd(_, _)
BitAnd(a, b) ==
    IF a = 0 \/ b = 0 THEN 0
    ELSE (IF a % 2 = 1 /\ b % 2 = 1 THEN 1 ELSE 0) + 2 * BitAnd(a \div 2, b \div 2)

RECURSIVE BitOr(_, _)
BitOr(a, b) ==
    IF a = 0 THEN b
    ELSE IF b = 0 THEN a
    ELSE (IF a % 2 = 1 \/ b % 2 = 1 THEN 1 ELSE 0) + 2 * BitOr(a \div 2, b \div 2)

\* a & ~m, for a >= 0 and m >= 0
BitAndNot(a, m) == a - BitAnd(a, m)

Range(s) == {s[i] : i \in 1..Len(s)}

\* [x] * n
Repeat(x, n) == [i \in 1..(IF n > 0 THEN n ELSE 0) |-> x]

\* d[k] = v on a dict, the key added when it is absent
DictSet(d, k, v) == [j \in DOMAIN d \cup {k} |-> IF j = k THEN v ELSE d[j]]

\* a list with Python index k (element k + 1) replaced
ListSet(s, k, v) == [s EXCEPT ![k + 1] = v]

Min(a, b) == IF a < b THEN a ELSE b
Max(a, b) == IF a > b THEN a ELSE b

\* s[o:] and s[:f] for o >= 0 and f >= 0
SliceFrom(s, o) == SubSeq(s, Min(o, Len(s)) + 1, Len(s))
SliceTo(s, f) == SubSeq(s, 1, Min(f, Len(s)))

Raise(kind, graph) == [kind |-> kind, graph |-> graph]
NoError == Raise("none", None)

---------------------------------------------------------------------------
(* class Data.  A file is [title, length, header, rows]: line 1, the       *)
(* integer of line 2, the names of line 3 and the cells of the lines after *)
(* it.  A constructor call returns [err, data]; err is the name of the     *)
(* exception that left the constructor, "none" when it returned.           *)

\* for col, value in enumerate(it.next().split()):
\*   self.samples[field_ids[col]][sample_id] = float(value)
RECURSIVE SetRow(_, _, _, _, _)
SetRow(samples, field_ids, row, sample_id, col) ==
    IF col >= Len(row) THEN [err |-> "none", samples |-> samples]
    ELSE IF col >= Len(field_ids) THEN [err |-> "IndexError", samples |-> samples]
    ELSE SetRow([samples EXCEPT ![field_ids[col + 1]] =
                     ListSet(@, sample_id, row[col + 1])],
                field_ids, row, sample_id, col + 1)

\* for sample_id in xrange(self.length): ... it.next() ...
RECURSIVE ReadRows(_, _, _, _, _)
ReadRows(samples, field_ids, rows, len, sample_id) ==
    IF sample_id >= len THEN [err |-> "none", samples |-> samples]
    ELSE IF sample_id >= Len(rows) THEN [err |-> "StopIteration", samples |-> samples]
    ELSE LET r == SetRow(samples, field_ids, rows[sample_id + 1], sample_id, 0)
         IN  IF r.err # "none" THEN r
             ELSE ReadRows(r.samples, field_ids, rows, len, sample_id + 1)

\* the part of _read_samples before the two post-processing calls
ReadFile(file) ==
    IF \E i \in 1..Len(file.header) : file.header[i] \notin DOMAIN name_to_id
    THEN [err |-> "KeyError", samples |-> <<>>]
    ELSE LET field_ids == [i \in 1..Len(file.header) |-> name_to_id[file.header[i]]]
             samples == [f \in Range(field_ids) |-> Repeat(0, file.length)]
         IN  ReadRows(samples, field_ids, file.rows, file.length, 0)

\* samples[INPUT_TIME] of a defaultdict(list) is [] when the key is absent,
\* and [][0] raises IndexError
_subtract_first_input_time(samples) ==
    IF INPUT_TIME \notin DOMAIN samples \/ Len(samples[INPUT_TIME]) = 0
    THEN [err |-> "IndexError", samples |-> samples]
    ELSE LET offset == samples[INPUT_TIME][1]
         IN  [err |-> "none",
              samples |-> [f \in DOMAIN samples |->
                  IF f \in {INPUT_TIME, SEND_TIME, RECV_TIME, RENDER_TIME}
                  THEN [k \in 1..Len(samples[f]) |-> samples[f][k] - offset]
                  ELSE samples[f]]]

\* variant: the delta is computed for a dropped frame too
RenderedDeltaBuggy(dropped, k, decoded_time, last_render_time, old) ==
    IF k > 0 THEN decoded_time - last_render_time ELSE old

\* lines 149-151: the value of s[RENDERED_DELTA][k] after iteration k
RenderedDeltaStep(dropped, k, decoded_time, last_render_time, old) ==
    IF dropped = 0 /\ k > 0 THEN decoded_time - last_render_time ELSE old

\* variant: a dropped frame becomes the last rendered one too
LastRenderTimeBuggy(dropped, decoded_time, last_render_time) ==
    decoded_time

\* lines 149 and 152: the value of last_render_time after iteration k
LastRenderTimeStep(dropped, decoded_time, last_render_time) ==
    IF dropped = 0 THEN decoded_time ELSE last_render_time

\* for k in range(self.length): ...  A raw field absent from the header
\* reads as [] and its [k] raises IndexError.
RECURSIVE GenLoop(_, _, _, _)
GenLoop(s, len, k, last_render_time) ==
    IF k >= len THEN [err |-> "none", samples |-> s]
    ELSE IF \E f \in {SEND_TIME, INPUT_TIME, RENDER_TIME, RECV_TIME, DROPPED} :
                f \notin DOMAIN s
    THEN [err |-> "IndexError", samples |-> s]
    ELSE LET decoded_time == s[RENDER_TIME][k + 1]
             dropped == s[DROPPED][k + 1]
             s1 == [s EXCEPT
                 ![SENDER_TIME] = ListSet(@, k, s[SEND_TIME][k + 1] - s[INPUT_TIME][k + 1]),
                 ![RECEIVER_TIME] = ListSet(@, k, decoded_time - s[RECV_TIME][k + 1]),
                 ![END_TO_END] = ListSet(@, k, decoded_time - s[INPUT_TIME][k + 1]),
                 ![RENDERED_DELTA] = ListSet(@, k,
                     RenderedDeltaStep(dropped, k, decoded_time, last_render_time,
                                       @[k + 1]))]
         IN  GenLoop(s1, len, k + 1,
                     LastRenderTimeStep(dropped, decoded_time, last_render_time))

_generate_additional_data(samples, len) ==
    LET s == [f \in DOMAIN samples \cup
                    {SENDER_TIME, RECEIVER_TIME, END_TO_END, RENDERED_DELTA} |->
                 IF f \in {SENDER_TIME, RECEIVER_TIME, END_TO_END, RENDERED_DELTA}
                 THEN Repeat(0, len) ELSE samples[f]]
    IN  GenLoop(s, len, 0, 0)

_read_samples(file) ==
    LET r == ReadFile(file)
        n == IF r.err = "none" THEN _subtract_first_input_time(r.samples) ELSE r
        g == IF n.err = "none" THEN _generate_additional_data(n.samples, file.length)
             ELSE n
    IN  [err |-> g.err,
         data |-> [title |-> file.title, length |-> file.length, samples |-> g.samples]]

\* Data(filename); open() of a path that is not on disk raises IOError
DataNew(files, filename) ==
    IF filename \notin DOMAIN files
    THEN [err |-> "IOError", data |-> <<>>]
    ELSE _read_samples(files[filename])

---------------------------------------------------------------------------
(* load_files and its cache *)

\* variant: the cache is never consulted
InCacheNever(filename, c) == FALSE

\* if filename in load_files.cache
InCache(filename, c) == filename \in DOMAIN c

Count(p, filename) == IF filename \in DOMAIN p THEN p[filename] ELSE 0

\* the loop of load_files from its i-th file name on; an exception of
\* Data(filename) leaves the loop with the cache as it is then
RECURSIVE LoadLoop(_, _, _, _, _, _, _)
LoadLoop(files, filenames, i, h, c, p, res) ==
    IF i > Len(filenames)
    THEN [err |-> "none", heap |-> h, cache |-> c, parses |-> p, result |-> res]
    ELSE LET filename == filenames[i]
         IN  IF InCache(filename, c)
             THEN LoadLoop(files, filenames, i + 1, h, c, p, Append(res, c[filename]))
             ELSE LET d == DataNew(files, filename)
                      p1 == DictSet(p, filename, Count(p, filename) + 1)
                  IN  IF d.err # "none"
                      THEN [err |-> d.err, heap |-> h, cache |-> c, parses |-> p1,
                            result |-> res]
                      ELSE LoadLoop(files, filenames, i + 1, Append(h, d.data),
                                    DictSet(c, filename, Len(h) + 1), p1,
                                    Append(res, Len(h) + 1))

load_files(files, filenames, h, c, p) == LoadLoop(files, filenames, 1, h, c, p, <<>>)

---------------------------------------------------------------------------
(* average_over_cycle *)

RECURSIVE Gcd(_, _)
Gcd(a, b) == IF b = 0 THEN a ELSE Gcd(b, a % b)

RECURSIVE LcmUpTo(_)
LcmUpTo(n) == IF n <= 1 THEN 1 ELSE (LcmUpTo(n - 1) * n) \div Gcd(LcmUpTo(n - 1), n)

\* the common denominator of the quotients: every count the model can
\* reach divides it, so the division below is exact
Den == LcmUpTo(Max(MaxLen, MaxL))

\* the float total / count, as a numerator over Den
Quotient(total, count) == (total * Den) \div count

\* variant: a phase without a number averages to 0.0
AvgResultZero(total, count) ==
    IF count # 0 THEN Quotient(total, count) ELSE 0

\* total[k] / count[k] if count[k] else None
AvgResult(total, count) ==
    IF count # 0 THEN Quotient(total, count) ELSE None

\* for k in range(len(values)): if values[k] is not None: ...
RECURSIVE AvgLoop(_, _, _, _, _)
AvgLoop(vals, len, k, total, count) ==
    IF k >= Len(vals) THEN [total |-> total, count |-> count]
    ELSE IF vals[k + 1] # None
    THEN AvgLoop(vals, len, k + 1,
                 [total EXCEPT ![(k % len) + 1] = @ + vals[k + 1]],
                 [count EXCEPT ![(k % len) + 1] = @ + 1])
    ELSE AvgLoop(vals, len, k + 1, total, count)

\* for length >= 1
average_over_cycle(vals, len) ==
    LET acc == AvgLoop(vals, len, 0, Repeat(0, len), Repeat(0, len))
    IN  [k \in 1..len |-> AvgResult(acc.total[k], acc.count[k])]

---------------------------------------------------------------------------
(* Data.add_samples and PlotConfig.plot, up to the length check.  A        *)
(* PlotConfig is [fields, data_list, cycle_length, frames, offset,         *)
(* output_filename, title]; output_filename "" stands for None (both are   *)
(* false at its only use).  A PlotLine is [label, values, flags]; the None *)
(* entry of lines is NoLine.                                               *)

NoLine == [label |-> <<>>, values |-> <<>>, flags |-> None]

\* Python's truth value of None or an integer
Truthy(x) == x # None /\ x # 0

\* self.samples[field_id] of a defaultdict(list): reading an absent key
\* stores [] under it
SamplesGet(samples, field_id) ==
    IF field_id \in DOMAIN samples THEN samples[field_id] ELSE <<>>

SamplesAfterGet(samples, field_id) ==
    IF field_id \in DOMAIN samples THEN samples ELSE DictSet(samples, field_id, <<>>)

_hide(samples, vals) ==
    [k \in 1..Len(vals) |-> IF SamplesGet(samples, DROPPED)[k] # 0 THEN None ELSE vals[k]]

\* the loop of add_samples from the i-th field on, on Data object id
RECURSIVE add_samples(_, _, _, _, _)
add_samples(h, id, fields, i, target_lines_list) ==
    IF i > Len(fields) THEN [heap |-> h, lines |-> target_lines_list]
    ELSE LET field == fields[i]
         IN  IF field = None
             THEN add_samples(h, id, fields, i + 1, Append(target_lines_list, NoLine))
             ELSE LET field_id == BitAnd(field, FIELD_MASK)
                      vals == SamplesGet(h[id].samples, field_id)
                      h1 == [h EXCEPT ![id].samples = SamplesAfterGet(@, field_id)]
                      shown_vals == IF BitAnd(field, HIDE_DROPPED) # 0
                                    THEN _hide(h1[id].samples, vals) ELSE vals
                      line == [label |-> <<h[id].title, id_to_title[field_id]>>,
                               values |-> shown_vals,
                               flags |-> BitAndNot(field, FIELD_MASK)]
                  IN  add_samples(h1, id, fields, i + 1, Append(target_lines_list, line))

\* for data in self.data_list: ...
RECURSIVE CollectLines(_, _, _, _)
CollectLines(h, cfg, i, acc) ==
    IF i > Len(cfg.data_list) THEN [heap |-> h, lines |-> acc]
    ELSE IF cfg.data_list[i] = None
    THEN CollectLines(h, cfg, i + 1, acc \o [j \in 1..Len(cfg.fields) |-> NoLine])
    ELSE LET r == add_samples(h, cfg.data_list[i], cfg.fields, 1, acc)
         IN  CollectLines(r.heap, cfg, i + 1, r.lines)

_slice_values(cfg, vals) ==
    LET v1 == IF Truthy(cfg.offset) THEN SliceFrom(vals, cfg.offset) ELSE vals
    IN  IF Truthy(cfg.frames) THEN SliceTo(v1, cfg.frames) ELSE v1

\* lines 242-244: the values of one line after slicing and averaging
LineValues(cfg, vals) ==
    LET v == _slice_values(cfg, vals)
    IN  IF Truthy(cfg.cycle_length) THEN average_over_cycle(v, cfg.cycle_length) ELSE v

\* variant: the lengths are never compared
LengthDiffersNever(len, vals) == FALSE

\* elif length != len(line.values)
LengthDiffers(len, vals) == len # Len(vals)

\* the loop of lines 238-249 from the i-th line on; len is the local length
RECURSIVE CheckLoop(_, _, _, _)
CheckLoop(cfg, ls, i, len) ==
    IF i > Len(ls) THEN [err |-> "none", lines |-> ls]
    ELSE IF ls[i] = NoLine THEN CheckLoop(cfg, ls, i + 1, len)
    ELSE LET v == LineValues(cfg, ls[i].values)
             ls1 == [ls EXCEPT ![i].values = v]
         IN  IF len = None THEN CheckLoop(cfg, ls1, i + 1, Len(v))
             ELSE IF LengthDiffers(len, v)
             THEN [err |-> "LengthMismatch", lines |-> ls1]
             ELSE CheckLoop(cfg, ls1, i + 1, len)

\* PlotConfig.plot: [err, heap, lines]
plot(h, cfg) ==
    LET c == CollectLines(h, cfg, 1, <<>>)
        r == CheckLoop(cfg, c.lines, 1, None)
    IN  [err |-> r.err, heap |-> c.heap, lines |-> r.lines]

---------------------------------------------------------------------------
(* The directive interpreter.  A directive is <<key, values>>, as          *)
(* CustomAction appends it to ordered_args.                                *)

field_arg_to_id(arg) ==
    IF arg = "none" THEN [err |-> "none", id |-> None]
    ELSE IF arg \in DOMAIN name_to_id THEN [err |-> "none", id |-> name_to_id[arg]]
    ELSE IF (arg \o "_ms") \in DOMAIN name_to_id
    THEN [err |-> "none", id |-> name_to_id[arg \o "_ms"]]
    ELSE [err |-> "UnrecognizedField", id |-> None]

\* lines 338-346
InitLocals ==
    [cycle_length |-> None, frames |-> None, offset |-> 0, output_filename |-> "",
     title |-> "Graph", fields |-> <<>>, files |-> <<>>, mask |-> 0]

\* variant: the mask is not reset after the field argument
FieldSelectorKeepMask(field_id, mask) ==
    [selector |-> IF field_id # None THEN BitOr(field_id, mask) ELSE None,
     mask |-> mask]

\* lines 364-365: the selector appended and the mask left behind
FieldSelector(field_id, mask) ==
    [selector |-> IF field_id # None THEN BitOr(field_id, mask) ELSE None,
     mask |-> 0]

\* one iteration of the loop of lines 347-367; err is the exception of
\* field_arg_to_id
Interpret(l, d) ==
    LET key == d[1]
        vals == d[2]
    IN  CASE key = "cycle_length" -> [err |-> "none", loc |-> [l EXCEPT !.cycle_length = vals[1]]]
          [] key = "frames" -> [err |-> "none", loc |-> [l EXCEPT !.frames = vals[1]]]
          [] key = "offset" -> [err |-> "none", loc |-> [l EXCEPT !.offset = vals[1]]]
          [] key = "output_filename" ->
                 [err |-> "none", loc |-> [l EXCEPT !.output_filename = vals[1]]]
          [] key = "title" -> [err |-> "none", loc |-> [l EXCEPT !.title = vals[1]]]
          [] key = "drop" ->
                 [err |-> "none", loc |-> [l EXCEPT !.mask = BitOr(@, HIDE_DROPPED)]]
          [] key = "right" ->
                 [err |-> "none", loc |-> [l EXCEPT !.mask = BitOr(@, RIGHT_Y_AXIS)]]
          [] key = "field" ->
                 LET r == field_arg_to_id(vals[1])
                     f == FieldSelector(r.id, l.mask)
                 IN  IF r.err # "none" THEN [err |-> r.err, loc |-> l]
                     ELSE [err |-> "none",
                           loc |-> [l EXCEPT !.fields = Append(@, f.selector),
                                             !.mask = f.mask]]
          [] key = "files" -> [err |-> "none", loc |-> [l EXCEPT !.files = @ \o vals]]
          [] OTHER -> [err |-> "none", loc |-> l]

PlotConfig(l, data_list) ==
    [fields |-> l.fields, data_list |-> data_list, cycle_length |-> l.cycle_length,
     frames |-> l.frames, offset |-> l.offset, output_filename |-> l.output_filename,
     title |-> l.title]

\* what _plot_config_from_args leaves behind when it raises err
GroupRaised(err, h, c, p) ==
    [err |-> err, heap |-> h, cache |-> c, parses |-> p, configs |-> <<>>]

\* lines 374-376, r being what load_files(files) returned or raised
GroupLoaded(l, r) ==
    IF r.err # "none"
    THEN GroupRaised(Raise(r.err, None), r.heap, r.cache, r.parses)
    ELSE [err |-> NoError, heap |-> r.heap, cache |-> r.cache, parses |-> r.parses,
          configs |-> <<PlotConfig(l, r.result)>>]

\* variant: the files are loaded before the two lists are checked
GroupChecked(l, num, r) ==
    IF l.files = <<>>
    THEN GroupRaised(Raise("MissingFile", num), r.heap, r.cache, r.parses)
    ELSE IF l.fields = <<>>
    THEN GroupRaised(Raise("MissingField", num), r.heap, r.cache, r.parses)
    ELSE GroupLoaded(l, r)

FinishGroupLoadFirst(files, l, num, h, c, p) ==
    GroupChecked(l, num, load_files(files, l.files, h, c, p))

\* lines 369-376: the checks of the two lists, then load_files and the
\* PlotConfig; configs is the list of the PlotConfig returned, if any
FinishGroup(files, l, num, h, c, p) ==
    IF l.files = <<>> THEN GroupRaised(Raise("MissingFile", num), h, c, p)
    ELSE IF l.fields = <<>> THEN GroupRaised(Raise("MissingField", num), h, c, p)
    ELSE GroupLoaded(l, load_files(files, l.files, h, c, p))

---------------------------------------------------------------------------
(* The inputs of the runs. *)

SeqsUpTo(S, n) == UNION {[1..k -> S] : k \in 0..n}

H5 == <<"dropped", "input_time_ms", "send_time_ms", "recv_time_ms", "render_time_ms">>
H6 == H5 \o <<"psnr">>

\* files on disk for the runs of the whole program: a and c have three
\* frames and b two; only a has a psnr column; x lacks its second row
FileA ==
    [title |-> "A", length |-> 3, header |-> H6,
     rows |-> << <<0, 10, 11, 12, 13, 30>>, <<1, 20, 21, 0, 0, 0>>,
                 <<0, 30, 32, 34, 37, 32>> >>]
FileB ==
    [title |-> "B", length |-> 2, header |-> H5,
     rows |-> << <<0, 5, 6, 7, 9>>, <<0, 15, 17, 18, 22>> >>]
FileC ==
    [title |-> "C", length |-> 3, header |-> H5,
     rows |-> << <<1, 10, 11, 0, 0>>, <<0, 20, 21, 22, 24>>, <<0, 30, 31, 32, 33>> >>]
FileX ==
    [title |-> "X", length |-> 2, header |-> H5, rows |-> << <<0, 5, 6, 7, 9>> >>]

Disk == [p \in {"a", "b", "c", "x"} |->
            CASE p = "a" -> FileA [] p = "b" -> FileB [] p = "c" -> FileC
              [] p = "x" -> FileX]

\* generated files: every declared length, four headers (one without
\* render_time_ms, one with an unknown name), and rows of five cells, of
\* six cells and of two cells in any number
GenRows ==
    {<<d, 10, 11, 12, r>> : d \in {0, 1}, r \in {10, 12, 15}}
        \cup {<<0, 10, 11, 12, 12, 30>>, <<1, 10, 11, 12, 15, 31>>, <<0, 10>>}

GenHeaders ==
    {H5, H6, <<"dropped", "input_time_ms", "send_time_ms", "recv_time_ms">>,
     <<"dropped", "input_time">>}

GenFiles ==
    {[title |-> "G", length |-> len, header |-> h, rows |-> rs] :
        len \in 0..MaxL, h \in GenHeaders, rs \in SeqsUpTo(GenRows, MaxL)}

\* directives of the runs of the whole program
RunDirectives ==
    {<<"field", <<"send_time">>>>, <<"field", <<"psnr">>>>,
     <<"files", <<"a">>>>, <<"files", <<"a", "b">>>>, <<"files", <<"x">>>>,
     <<"output_filename", <<"out.png">>>>, <<"frames", <<2>>>>}

\* directives of the runs of the interpreter alone
ArgDirectives ==
    {<<"drop", <<>>>>, <<"right", <<>>>>, <<"field", <<"none">>>>,
     <<"field", <<"psnr">>>>, <<"field", <<"send_time">>>>, <<"field", <<"bogus">>>>,
     <<"files", <<"a">>>>, <<"files", <<"b">>>>, <<"offset", <<1>>>>,
     <<"title", <<"T">>>>, <<"cycle_length", <<2>>>>}

\* plot specifications of the runs of PlotConfig.plot alone, over the Data
\* objects of a, b and c (instances 1, 2 and 3)
Selectors ==
    {None, SEND_TIME, BitOr(PSNR, HIDE_DROPPED), BitOr(RENDERED_DELTA, RIGHT_Y_AXIS)}

OptionalUpTo(n) == {None} \cup 0..n

PlotConfigs ==
    {[fields |-> fl, data_list |-> dl, cycle_length |-> c, frames |-> f, offset |-> o,
      output_filename |-> "", title |-> "Graph"] :
        fl \in SeqsUpTo(Selectors, 2) \ {<<>>},
        dl \in SeqsUpTo({None, 1, 2, 3}, 2) \ {<<>>},
        c \in OptionalUpTo(MaxCycle), f \in OptionalUpTo(MaxFrames), o \in 0..MaxOffset}

AvgValues == {None, 1, 2, 4}

---------------------------------------------------------------------------
(* Initial states. *)

NoData ==
    /\ heap = <<>>
    /\ cache = <<>>
    /\ parses = <<>>

InitBase ==
    /\ graph_num = 0
    /\ loc = InitLocals
    /\ args = <<>>
    /\ argv_pos = 0
    /\ plot_configs = <<>>
    /\ plot_idx = 0
    /\ lines = <<>>
    /\ saved = <<>>
    /\ shown = FALSE
    /\ error = NoError
    /\ result = <<>>

NoAverage ==
    /\ values = <<>>
    /\ length = 1

NoPlot == config = PlotConfig(InitLocals, <<>>)

\* the program started on some argument list, with a, b, c and x on disk
Init ==
    /\ InitBase /\ NoData /\ NoAverage /\ NoPlot
    /\ fs = Disk
    /\ pc = "args"

\* Data(filename) about to be called on one generated file
InitData ==
    /\ InitBase /\ NoData /\ NoAverage /\ NoPlot
    /\ fs \in [{"g"} -> GenFiles]
    /\ pc = "load"

\* PlotConfig.plot about to be called on one plot specification, with the
\* Data objects of a, b and c constructed
InitPlot ==
    /\ InitBase /\ NoAverage
    /\ fs = Disk
    /\ LET r == load_files(Disk, <<"a", "b", "c">>, <<>>, <<>>, <<>>)
       IN  heap = r.heap /\ cache = r.cache /\ parses = r.parses
    /\ config \in PlotConfigs
    /\ pc = "plot"

\* average_over_cycle about to be called
InitAvg ==
    /\ InitBase /\ NoData /\ NoPlot
    /\ fs = Disk
    /\ values \in SeqsUpTo(AvgValues, MaxLen)
    /\ length \in 1..MaxCycle
    /\ pc = "avg"

---------------------------------------------------------------------------
(* Actions. *)

\* one iteration of the loop of _plot_config_from_args on directive d
Directive(d, max) ==
    /\ pc = "args"
    /\ argv_pos < max
    /\ LET r == Interpret(loc, d)
       IN  /\ loc' = r.loc
           /\ pc' = IF r.err = "none" THEN "args" ELSE "error"
           /\ error' = IF r.err = "none" THEN error ELSE Raise(r.err, None)
    /\ args' = Append(args, d)
    /\ argv_pos' = argv_pos + 1
    /\ UNCHANGED <<fs, heap, cache, parses, graph_num, plot_configs, plot_idx, config,
                   lines, saved, shown, values, length, result>>

DirectiveRun == \E d \in RunDirectives : Directive(d, MaxArgv)

DirectiveArgs == \E d \in ArgDirectives : Directive(d, MaxArgs)

\* the directives of a group are consumed: the rest of
\* _plot_config_from_args, and the append of plot_configs_from_args
EndGroupWith(r) ==
    /\ heap' = r.heap
    /\ cache' = r.cache
    /\ parses' = r.parses
    /\ error' = r.err
    /\ plot_configs' = plot_configs \o r.configs
    /\ pc' = IF r.err = NoError THEN "args" ELSE "error"
    /\ graph_num' = IF r.err = NoError THEN graph_num + 1 ELSE graph_num
    /\ loc' = IF r.err = NoError THEN InitLocals ELSE loc
    /\ args' = IF r.err = NoError THEN <<>> ELSE args

EndGroup ==
    /\ pc = "args"
    /\ args # <<>>
    /\ EndGroupWith(FinishGroup(fs, loc, graph_num, heap, cache, parses))
    /\ UNCHANGED <<fs, argv_pos, plot_idx, config, lines, saved, shown, values, length,
                   result>>

\* plot_configs_from_args returns and show_or_save_plots starts
StartShow ==
    /\ pc = "args"
    /\ args = <<>>
    /\ pc' = "show"
    /\ UNCHANGED <<fs, heap, cache, parses, graph_num, loc, args, argv_pos,
                   plot_configs, plot_idx, config, lines, saved, shown, error, values,
                   length, result>>

\* one iteration of the loop of show_or_save_plots
PlotStepWith(cfg, r) ==
    /\ config' = cfg
    /\ heap' = r.heap
    /\ lines' = r.lines
    /\ pc' = IF r.err # "none" THEN "error" ELSE "show"
    /\ error' = IF r.err # "none" THEN Raise(r.err, None) ELSE error
    /\ plot_idx' = IF r.err # "none" THEN plot_idx ELSE plot_idx + 1
    /\ saved' = IF r.err = "none" /\ cfg.output_filename # ""
                THEN Append(saved, cfg.output_filename) ELSE saved

PlotStep ==
    /\ pc = "show"
    /\ plot_idx < Len(plot_configs)
    /\ PlotStepWith(plot_configs[plot_idx + 1], plot(heap, plot_configs[plot_idx + 1]))
    /\ UNCHANGED <<fs, cache, parses, graph_num, loc, args, argv_pos, plot_configs,
                   shown, values, length, result>>

\* plt.show()
Show ==
    /\ pc = "show"
    /\ plot_idx = Len(plot_configs)
    /\ shown' = TRUE
    /\ pc' = "done"
    /\ UNCHANGED <<fs, heap, cache, parses, graph_num, loc, args, argv_pos,
                   plot_configs, plot_idx, config, lines, saved, error, values, length,
                   result>>

\* load_files(["g"]), which calls Data("g")
LoadData ==
    /\ pc = "load"
    /\ LET r == load_files(fs, <<"g">>, heap, cache, parses)
       IN  /\ heap' = r.heap
           /\ cache' = r.cache
           /\ parses' = r.parses
           /\ error' = IF r.err = "none" THEN NoError ELSE Raise(r.err, None)
           /\ pc' = IF r.err = "none" THEN "loaded" ELSE "error"
    /\ UNCHANGED <<fs, graph_num, loc, args, argv_pos, plot_configs, plot_idx, config,
                   lines, saved, shown, values, length, result>>

\* config.plot(ax)
PlotCall ==
    /\ pc = "plot"
    /\ LET r == plot(heap, config)
       IN  /\ heap' = r.heap
           /\ lines' = r.lines
           /\ error' = IF r.err = "none" THEN NoError ELSE Raise(r.err, None)
           /\ pc' = IF r.err = "none" THEN "plotted" ELSE "error"
    /\ UNCHANGED <<fs, cache, parses, graph_num, loc, args, argv_pos, plot_configs,
                   plot_idx, config, saved, shown, values, length, result>>

\* average_over_cycle(values, length)
Average ==
    /\ pc = "avg"
    /\ result' = average_over_cycle(values, length)
    /\ pc' = "averaged"
    /\ UNCHANGED <<fs, heap, cache, parses, graph_num, loc, args, argv_pos,
                   plot_configs, plot_idx, config, lines, saved, shown, error, values,
                   length>>

Next == DirectiveRun \/ EndGroup \/ StartShow \/ PlotStep \/ Show

NextArgs == DirectiveArgs \/ EndGroup

Spec == Init /\ [][Next]_vars

SpecArgs == Init /\ [][NextArgs]_vars

SpecData == InitData /\ [][LoadData]_vars

SpecPlot == InitPlot /\ [][PlotCall]_vars

SpecAvg == InitAvg /\ [][Average]_vars

---------------------------------------------------------------------------
(* Claims about the Data constructor, under SpecData. *)

\* one of the first length rows of the file has fewer cells than the header
\* has names
HasShortRow(file) ==
    \E k \in 1..file.length :
        k <= Len(file.rows) /\ Len(file.rows[k]) < Len(file.header)

\* C1: constructing a Data from a file with a row of fewer cells than the
\* header declares fields fails, and no Data is produced or cached.
C1_ShortRowFails ==
    (pc # "load" /\ HasShortRow(fs["g"]))
        => (pc = "error" /\ Len(heap) = 0 /\ DOMAIN cache = {})

\* the render time of the last frame before Python index k that is not
\* dropped, 0 when there is none
LastRenderedBefore(dropped, render_time, k) ==
    LET J == {j \in 0..(k - 1) : dropped[j + 1] = 0}
    IN  IF J = {} THEN 0
        ELSE render_time[(CHOOSE j \in J : \A i \in J : i <= j) + 1]

RenderedDeltaHolds(d) ==
    LET dropped == d.samples[DROPPED]
        render_time == d.samples[RENDER_TIME]
        rendered_delta == d.samples[RENDERED_DELTA]
    IN  /\ Len(rendered_delta) = d.length
        /\ rendered_delta[1] = 0
        /\ \A k \in 1..(d.length - 1) :
               rendered_delta[k + 1] =
                   IF dropped[k + 1] = 0
                   THEN render_time[k + 1] - LastRenderedBefore(dropped, render_time, k)
                   ELSE 0

\* C4: in every Data constructed, rendered_delta[0] = 0; for k > 0 not
\* dropped, rendered_delta[k] is render_time[k] minus the render time of
\* the last frame before k that is not dropped (0 when there is none); for
\* a dropped k it is 0, and that frame does not become the last rendered.
C4_RenderedDelta ==
    \A id \in 1..Len(heap) : RenderedDeltaHolds(heap[id])

\* a Data of three frames whose middle frame is dropped, so that the last
\* frame's delta reaches back over it to frame 0
C4_Witness ==
    /\ pc = "loaded"
    /\ Len(heap) = 1
    /\ heap[1].length >= 3
    /\ heap[1].samples[DROPPED][1] = 0
    /\ heap[1].samples[DROPPED][2] # 0
    /\ heap[1].samples[DROPPED][3] = 0
    /\ heap[1].samples[RENDER_TIME][2] # heap[1].samples[RENDER_TIME][1]
    /\ heap[1].samples[RENDERED_DELTA][3] # 0

---------------------------------------------------------------------------
(* Claims about average_over_cycle, under SpecAvg. *)

\* the Python indices p, p + len, p + 2 len, ... of vals that hold a number
PresentAt(vals, len, p) ==
    {k \in 0..(Len(vals) - 1) :
        /\ \E i \in 0..Len(vals) : k = p + i * len
        /\ vals[k + 1] # None}

RECURSIVE SumAt(_, _)
SumAt(vals, K) ==
    IF K = {} THEN 0
    ELSE LET k == CHOOSE x \in K : TRUE
         IN  vals[k + 1] + SumAt(vals, K \ {k})

\* C5: average_over_cycle(values, L), L >= 1, returns L entries; entry p
\* is missing iff no number stands at p, p + L, p + 2L, ..., and is
\* otherwise the sum of the numbers there divided by how many they are.
\* (An entry r stands for the rational r / Den.)
C5_AverageOverCycle ==
    pc = "averaged" =>
        /\ Len(result) = length
        /\ \A p \in 0..(length - 1) :
               LET K == PresentAt(values, length, p)
               IN  IF K = {} THEN result[p + 1] = None
                   ELSE /\ result[p + 1] # None
                        /\ result[p + 1] * Cardinality(K) = SumAt(values, K) * Den

\* four values folded over a cycle of three: phase 0 holds a number and a
\* missing entry, phase 1 only a missing entry
C5_Witness ==
    /\ pc = "averaged"
    /\ length = 3
    /\ Len(values) = 4
    /\ values[1] # None
    /\ values[4] = None
    /\ values[2] = None
    /\ result[1] = values[1] * Den
    /\ result[2] = None

---------------------------------------------------------------------------
(* Claims about PlotConfig.plot, under SpecPlot. *)

Returned == pc \in {"plotted", "error"}

\* every line of the specification after slicing and averaging, whether or
\* not the loop of plot got to it
Processed(h, cfg) ==
    LET c == CollectLines(h, cfg, 1, <<>>).lines
    IN  [i \in 1..Len(c) |->
            IF c[i] = NoLine THEN NoLine
            ELSE [c[i] EXCEPT !.values = LineValues(cfg, c[i].values)]]

NonMarkers(ls) == {i \in 1..Len(ls) : ls[i] # NoLine}

SomeLengthsDiffer(ls) ==
    \E i, j \in NonMarkers(ls) : Len(ls[i].values) # Len(ls[j].values)

C9_DataImmutable ==
    [][\A id \in 1..Len(heap) : heap'[id] = heap[id]]_vars

\* the samples line i of lines was made from: those of its field in its
\* Data, hidden where the frame is dropped if the selector says so
LineData(i) == heap[config.data_list[((i - 1) \div Len(config.fields)) + 1]]

LineField(i) == config.fields[((i - 1) % Len(config.fields)) + 1]

LineBase(i) ==
    LET raw == SamplesGet(LineData(i).samples, BitAnd(LineField(i), FIELD_MASK))
    IN  IF BitAnd(LineField(i), HIDE_DROPPED) # 0
        THEN [k \in 1..Len(raw) |->
                 IF LineData(i).samples[DROPPED][k] # 0 THEN None ELSE raw[k]]
        ELSE raw

\* the values are the n samples of the base from Python index o on
IsSlice(vals, base, o, n) ==
    /\ Len(vals) = n
    /\ \A k \in 1..n : k + o <= Len(base) /\ vals[k] = base[k + o]

\* the lines the claim is about: of a field the Data holds all L samples of
Populated(i) == Len(LineBase(i)) = LineData(i).length

\* C10: without a cycle length a line holds the samples from index o on,
\* cut to at most f samples whenever a cap f >= 0 is configured:
\* min(f, max(0, L - o)) samples, and max(0, L - o) with no cap; with a
\* cycle length c it holds c values.
C10_OffsetThenCap ==
    pc = "plotted" =>
        \A i \in NonMarkers(lines) : Populated(i) =>
            LET rest == Max(0, LineData(i).length - config.offset)
            IN  IF Truthy(config.cycle_length)
                THEN Len(lines[i].values) = config.cycle_length
                ELSE IF config.frames # None
                THEN IsSlice(lines[i].values, LineBase(i), config.offset,
                             Min(config.frames, rest))
                ELSE IsSlice(lines[i].values, LineBase(i), config.offset, rest)

\* the same with a cap of 0 read as no cap, as line 233 reads it
OffsetThenCapFromOne ==
    pc = "plotted" =>
        \A i \in NonMarkers(lines) : Populated(i) =>
            LET rest == Max(0, LineData(i).length - config.offset)
            IN  IF Truthy(config.cycle_length)
                THEN Len(lines[i].values) = config.cycle_length
                ELSE IF Truthy(config.frames)
                THEN IsSlice(lines[i].values, LineBase(i), config.offset,
                             Min(config.frames, rest))
                ELSE IsSlice(lines[i].values, LineBase(i), config.offset, rest)

---------------------------------------------------------------------------
(* Claims about the directive interpreter, under SpecArgs. *)

\* the positions in args of the field directives, and the n-th of them
FieldPositions == {i \in 1..Len(args) : args[i][1] = "field"}

FieldPos(n) ==
    CHOOSE i \in FieldPositions : Cardinality({j \in FieldPositions : j <= i}) = n

\* the keys of the directives strictly between positions lo and hi
KeysBetween(lo, hi) == {args[j][1] : j \in (lo + 1)..(hi - 1)}

\* the directives before the n-th field directive and after the one before
Window(n) == KeysBetween(IF n = 1 THEN 0 ELSE FieldPos(n - 1), FieldPos(n))

\* the directives after the last field directive
Pending ==
    KeysBetween(IF FieldPositions = {} THEN 0
                ELSE FieldPos(Cardinality(FieldPositions)), Len(args) + 1)

FlagsOf(keys) ==
    (IF "drop" \in keys THEN HIDE_DROPPED ELSE 0)
        + (IF "right" \in keys THEN RIGHT_Y_AXIS ELSE 0)

\* the presentation flags a selector carries; the skip marker carries none
AttachedFlags(selector) ==
    IF selector = None THEN 0 ELSE BitAndNot(selector, FIELD_MASK)

\* C3 as stated: the flags of every selector, the skip marker included, are
\* the drop and right directives of its window, and the pending mask is
\* those after the last field directive.
C3_FlagsOfEverySelector ==
    error.kind # "UnrecognizedField" =>
        /\ Len(loc.fields) = Cardinality(FieldPositions)
        /\ \A n \in 1..Len(loc.fields) :
               AttachedFlags(loc.fields[n]) = FlagsOf(Window(n))
        /\ loc.mask = FlagsOf(Pending)

\* C3, amended: the flags of every selector that is not the skip marker are
\* exactly the drop and right directives of its window; a field directive
\* of the skip keyword appends the marker and drops the directives of its
\* window; the pending mask is the drop and right directives after the
\* last field directive, so it is zero right after every field directive
\* and at the start of every group.
C3_FlagsOfNextField ==
    error.kind # "UnrecognizedField" =>
        /\ Len(loc.fields) = Cardinality(FieldPositions)
        /\ \A n \in 1..Len(loc.fields) :
               IF args[FieldPos(n)][2][1] = "none"
               THEN loc.fields[n] = None
               ELSE /\ loc.fields[n] # None
                    /\ AttachedFlags(loc.fields[n]) = FlagsOf(Window(n))
                    /\ BitAnd(loc.fields[n], FIELD_MASK)
                           = field_arg_to_id(args[FieldPos(n)][2][1]).id
        /\ loc.mask = FlagsOf(Pending)

\* drop, right, field psnr, field send_time: both flags on the first
\* selector, none on the second
C3_Witness ==
    /\ pc = "args"
    /\ args = << <<"drop", <<>>>>, <<"right", <<>>>>, <<"field", <<"psnr">>>>,
                 <<"field", <<"send_time">>>> >>
    /\ loc.fields = <<PSNR + HIDE_DROPPED + RIGHT_Y_AXIS, SEND_TIME>>
    /\ loc.mask = 0

\* a step that ends a group: no directive is consumed
GroupEnds == pc = "args" /\ argv_pos' = argv_pos

\* C6: a group whose file list or field list is empty when its directives
\* are consumed raises the error of that list with the group's index, adds
\* no PlotConfig, and neither parses nor caches a file.
C6_EmptyListRaises ==
    [][(GroupEnds /\ (loc.files = <<>> \/ loc.fields = <<>>)) =>
           /\ pc' = "error"
           /\ error' = Raise(IF loc.files = <<>> THEN "MissingFile" ELSE "MissingField",
                             graph_num)
           /\ plot_configs' = plot_configs
           /\ cache' = cache
           /\ heap' = heap
           /\ parses' = parses]_vars

\* the second group names file b and no field: b is not in the cache
C6_Witness ==
    /\ pc = "error"
    /\ error = Raise("MissingField", 1)
    /\ loc.files = <<"b">>
    /\ "b" \notin DOMAIN cache
    /\ Len(plot_configs) = 1

---------------------------------------------------------------------------
(* Claims about the whole run, under Spec. *)

ConfigurationErrors == {"MissingFile", "MissingField", "LengthMismatch"}

\* C2: when a chart group fails with a configuration error, no chart of the
\* run has been saved or displayed.
C2_NoPartialSuccess ==
    (pc = "error" /\ error.kind \in ConfigurationErrors)
        => (saved = <<>> /\ ~shown)

\* C8: every path is parsed at most once; its first reference constructs
\* the Data and caches it, every reference returns the cached instance, and
\* no cache entry is ever replaced or removed.
C8_ParsedOnce ==
    [][/\ \A p \in DOMAIN cache : p \in DOMAIN cache' /\ cache'[p] = cache[p]
       /\ \A p \in DOMAIN parses' : parses'[p] <= 1
       /\ \A p \in DOMAIN cache' \ DOMAIN cache :
              /\ Count(parses, p) = 0
              /\ parses'[p] = 1
              /\ cache'[p] \in (Len(heap) + 1)..Len(heap')
       /\ \A p, q \in DOMAIN cache' : p # q => cache'[p] # cache'[q]
       /\ Len(plot_configs') = Len(plot_configs) + 1 =>
              LET data_list == plot_configs'[Len(plot_configs')].data_list
              IN  /\ Len(data_list) = Len(loc.files)
                  /\ \A i \in 1..Len(data_list) :
                         data_list[i] = cache'[loc.files[i]]]_vars

\* two groups name file a: both hold the instance the first one made
C8_Witness ==
    /\ Len(plot_configs) = 2
    /\ plot_configs[1].data_list = <<1>>
    /\ plot_configs[2].data_list = <<1, 2>>
    /\ parses["a"] = 1
    /\ Len(heap) = 2

====
